---- MODULE Spec2Model ----
(***************************************************************************)
(* A model of the color-clustering Runner (src/color_clusters/runner.rs)   *)
(* and of the PerspectiveTransform utility (src/numeric/perspective.rs).   *)
(*                                                                         *)
(* Three specifications share the variables:                               *)
(*   Spec       the Runner's life cycle: configuration, Runner::builder's  *)
(*              validation, and the four predicates it binds into the      *)
(*              Builder, evaluated by the started builder;                 *)
(*   SpecColor  the public pure functions color_same and color_diff,       *)
(*              called directly on bounded inputs;                         *)
(*   SpecPersp  PerspectiveTransform: construction and point mapping.      *)
(***************************************************************************)
EXTENDS Integers, Sequences, FiniteSets

VARIABLES
    config,           \* Runner.config (the fields the bound closures capture)
    overflow_checks,  \* build profile: TRUE = overflow checks on (debug)
    pc,               \* position of the Runner / Builder life cycle
    entry,            \* the Runner entry point called: builder, start or run
    builder_created,  \* Builder::new() has been reached in Runner::builder
    evaluated,        \* some bound predicate has been evaluated
    clusters,         \* a Clusters result has been produced
    call,             \* the last predicate / function call and its outcome
    pt,               \* the PerspectiveTransform value (coeffs, coeffs_inv)
    tcall             \* the last transform / transform_inverse call

vars == <<config, overflow_checks, pc, entry, builder_created, evaluated, clusters,
          call, pt, tcall>>

(***************************************************************************)
(* Bounds of the model.                                                    *)
(***************************************************************************)
MaxNeighbours == 2   \* longest neighbour list handed to deepen / hollow
MaxPalette == 3      \* colors the started builder compares (Spec)
MaxChanIdx == 2      \* sampled channel intensities besides 0 and 255 (SpecColor)
MaxScale == 2        \* side lengths of the sampled quadrilaterals (SpecPersp)
MaxCoord == 2        \* coordinates of transformed points (SpecPersp)

(***************************************************************************)
(* Program constants.                                                      *)
(***************************************************************************)
ChannelBits == 8     \* assert!(is_same_color_a < 8): the bit width of a u8 channel

(***************************************************************************)
(* Colors: three u8 channels.                                              *)
(***************************************************************************)
Color(r, g, b) == [r |-> r, g |-> g, b |-> b]

Black == Color(0, 0, 0)

White == Color(255, 255, 255)

ChanSamples == <<15, 16, 128, 31, 1, 254>>

ChanVals == {0, 255} \cup {ChanSamples[i] : i \in 1..MaxChanIdx}

Colors == [r : ChanVals, g : ChanVals, b : ChanVals]

PaletteSeq == <<Black, White, Color(16, 16, 16), Color(255, 0, 15),
                Color(15, 16, 17), Color(0, 128, 255)>>

PaletteColors == {PaletteSeq[i] : i \in 1..MaxPalette}

(***************************************************************************)
(* ColorI32: the signed 32-bit copy of a Color and the per-channel         *)
(* difference.  All operands are in 0..255, so no i32 operation below can  *)
(* leave the i32 range.                                                     *)
(***************************************************************************)
ColorI32New(c) == [r |-> c.r, g |-> c.g, b |-> c.b]

ColorI32Diff(x, y) == [r |-> x.r - y.r, g |-> x.g - y.g, b |-> x.b - y.b]

I32Abs(x) == IF x < 0 THEN 0 - x ELSE x

(***************************************************************************)
(* color_diff: L1 distance of the widened colors.                          *)
(***************************************************************************)
\* Variant: the channels subtracted as u8 (wrapping), never widened to i32.
color_diff_u8(a, b) ==
    ((a.r - b.r) % 256) + ((a.g - b.g) % 256) + ((a.b - b.b) % 256)

color_diff(a, b) ==
    LET a32 == ColorI32New(a)
        b32 == ColorI32New(b)
    IN  I32Abs(a32.r - b32.r) + I32Abs(a32.g - b32.g) + I32Abs(a32.b - b32.b)

(***************************************************************************)
(* oklab_color_diff: the conversion to Oklab is the external oklab crate   *)
(* and f32 arithmetic; the model keeps it opaque: any value in             *)
(* OklabDiffVals for distinct colors, 0 for equal ones.                    *)
(***************************************************************************)
OklabDiffVals == {0, 1, 255}

oklab_color_diff(a, b) == IF a = b THEN {0} ELSE OklabDiffVals

(***************************************************************************)
(* color_same.  `a.r >> shift` shifts a u8 by an i32: with overflow checks *)
(* (debug profile) a shift outside 0..7 panics; without them the shift     *)
(* amount is masked to the low 3 bits.                                     *)
(***************************************************************************)
ShiftOverflows(shift) == shift < 0 \/ shift >= ChannelBits

ShrU8(x, shift) == x \div (2 ^ (shift % ChannelBits))

color_same_panics(shift, checks) == checks /\ ShiftOverflows(shift)

\* Variant: the quantized differences compared without .abs().
color_same_noabs(a, b, shift, thres) ==
    LET diff == ColorI32Diff(
                    [r |-> ShrU8(a.r, shift), g |-> ShrU8(a.g, shift), b |-> ShrU8(a.b, shift)],
                    [r |-> ShrU8(b.r, shift), g |-> ShrU8(b.g, shift), b |-> ShrU8(b.b, shift)])
    IN  diff.r <= thres /\ diff.g <= thres /\ diff.b <= thres

color_same(a, b, shift, thres) ==
    LET diff == ColorI32Diff(
                    [r |-> ShrU8(a.r, shift), g |-> ShrU8(a.g, shift), b |-> ShrU8(a.b, shift)],
                    [r |-> ShrU8(b.r, shift), g |-> ShrU8(b.g, shift), b |-> ShrU8(b.b, shift)])
    IN  I32Abs(diff.r) <= thres /\ I32Abs(diff.g) <= thres /\ I32Abs(diff.b) <= thres

(***************************************************************************)
(* patch_good: the geometric gate.  A patch is the pair of Cluster::area() *)
(* and Cluster::perimeter_internal(internal).                              *)
(***************************************************************************)
\* Variant: the area bounds taken inclusively.
patch_good_inclusive(patch, good_min_area, good_max_area) ==
    IF good_min_area <= patch.area /\ patch.area <= good_max_area
    THEN IF good_min_area = 0 \/ patch.perimeter_internal < patch.area
         THEN TRUE
         ELSE FALSE
    ELSE FALSE

patch_good(patch, good_min_area, good_max_area) ==
    IF good_min_area < patch.area /\ patch.area < good_max_area
    THEN IF good_min_area = 0 \/ patch.perimeter_internal < patch.area
         THEN TRUE
         ELSE FALSE
    ELSE FALSE

(***************************************************************************)
(* The deepen closure: patch_good(..) && neighbours[0].diff > deepen_diff. *)
(* && short-circuits; neighbours[0] on an empty slice panics.              *)
(***************************************************************************)
deepen_panics(cfg, patch, neighbours) ==
    patch_good(patch, cfg.good_min_area, cfg.good_max_area) /\ Len(neighbours) = 0

\* Variant: the last neighbour instead of the first, compared with >=.
deepen_last(cfg, patch, neighbours) ==
    patch_good(patch, cfg.good_min_area, cfg.good_max_area)
    /\ neighbours[Len(neighbours)].diff >= cfg.deepen_diff

deepen(cfg, patch, neighbours) ==
    patch_good(patch, cfg.good_min_area, cfg.good_max_area)
    /\ neighbours[1].diff > cfg.deepen_diff

(***************************************************************************)
(* The hollow closure: neighbours.len() <= hollow_neighbours.              *)
(***************************************************************************)
\* Variant: the operands of the comparison swapped.
hollow_swapped(cfg, patch, neighbours) == cfg.hollow_neighbours <= Len(neighbours)

\* Variant: a strict comparison.
hollow_strict(cfg, patch, neighbours) == Len(neighbours) < cfg.hollow_neighbours

hollow(cfg, patch, neighbours) == Len(neighbours) <= cfg.hollow_neighbours

(***************************************************************************)
(* RunnerConfig.  The fields diagonal, hierarchical, batch_size, key_color *)
(* and keying_action are handed to the Builder unchanged and read by none  *)
(* of the closures; the record keeps the captured fields.                  *)
(***************************************************************************)
DefaultConfig ==
    [good_min_area |-> 16, good_max_area |-> 256 * 256,
     is_same_color_a |-> 4, is_same_color_b |-> 1,
     deepen_diff |-> 64, hollow_neighbours |-> 1, color_space |-> "RGB"]

ShiftVals == {-1, 0, 4, 7, 8, 9}

Configs ==
    [good_min_area : {0, 16}, good_max_area : {256 * 256},
     is_same_color_a : ShiftVals, is_same_color_b : {0, 1},
     deepen_diff : {64}, hollow_neighbours : 0..MaxNeighbours,
     color_space : {"RGB", "Oklab"}]

(***************************************************************************)
(* The validation of Runner::builder: assert!(is_same_color_a < 8).        *)
(***************************************************************************)
\* Variant: the bound off by one.
builder_accepts_le(cfg) == cfg.is_same_color_a <= ChannelBits

builder_accepts(cfg) == cfg.is_same_color_a < ChannelBits

(***************************************************************************)
(* Inputs of the predicates the builder evaluates.                         *)
(***************************************************************************)
NoPatch == [area |-> 1, perimeter_internal |-> 0]

AreaVals(cfg) ==
    {1, 25, cfg.good_min_area, cfg.good_min_area + 1,
     cfg.good_max_area - 1, cfg.good_max_area, cfg.good_max_area + 1} \ {0}

PerimVals(area) == {0, area - 1, area}

NeighbourInfos(cfg) ==
    [diff : {cfg.deepen_diff - 1, cfg.deepen_diff, cfg.deepen_diff + 1}]

NeighbourLists(cfg) ==
    UNION {[1..n -> NeighbourInfos(cfg)] : n \in 0..MaxNeighbours}

Patches(cfg) ==
    UNION {{[area |-> a, perimeter_internal |-> p] : p \in PerimVals(a)} :
              a \in AreaVals(cfg)}

\* A cluster without neighbours has no boundary against other clusters.
PatchInputs(cfg) ==
    {pn \in [patch : Patches(cfg), neighbours : NeighbourLists(cfg)] :
        Len(pn.neighbours) = 0 => pn.patch.perimeter_internal = 0}

NoCall ==
    [op |-> "none", a |-> Black, b |-> Black, shift |-> 0, thres |-> 0,
     patch |-> NoPatch, neighbours |-> <<>>,
     panicked |-> FALSE, bval |-> FALSE, ival |-> 0]

(***************************************************************************)
(* PerspectiveTransform state when no transform is under study.            *)
(***************************************************************************)
Zero8 == <<0, 0, 0, 0, 0, 0, 0, 0>>

NoTransform ==
    [built |-> FALSE, coeffs |-> Zero8, coeffs_inv |-> Zero8,
     inv_fwd |-> "na", inv_inv |-> "na"]

NoTCall ==
    [dir |-> "none", point |-> [x |-> 0, y |-> 0],
     x |-> <<0, 1>>, y |-> <<0, 1>>]

(***************************************************************************)
(* Spec: the Runner's life cycle.                                          *)
(*   pc = "new"       Runner::new(config, image) has returned              *)
(*   pc = "built"     Runner::builder returned a Builder                   *)
(*   pc = "started"   the builder is started (Runner::start, or the first  *)
(*                    half of Runner::run) and evaluates its predicates    *)
(*   pc = "returned"  a bound predicate has returned to the builder, which *)
(*                    holds its result in `call`                           *)
(*   pc = "finished"  the builder ran to completion: Clusters exist        *)
(*   pc = "panicked"  the thread unwound                                   *)
(***************************************************************************)
Init ==
    /\ config \in Configs
    /\ overflow_checks \in BOOLEAN
    /\ pc = "new"
    /\ entry = "none"
    /\ builder_created = FALSE
    /\ evaluated = FALSE
    /\ clusters = FALSE
    /\ call = NoCall
    /\ pt = NoTransform
    /\ tcall = NoTCall

\* Runner::builder up to the Builder it returns; `next` is where the caller
\* takes the Builder.
BuilderBody(next) ==
    IF builder_accepts(config)
    THEN /\ builder_created' = TRUE
         /\ pc' = next
    ELSE /\ builder_created' = builder_created
         /\ pc' = "panicked"

RunnerBuilder ==
    /\ pc = "new"
    /\ entry' = "builder"
    /\ BuilderBody("built")
    /\ UNCHANGED <<config, overflow_checks, evaluated, clusters, call, pt, tcall>>

\* Runner::start: self.builder().start().
RunnerStart ==
    /\ pc = "new"
    /\ entry' = "start"
    /\ BuilderBody("started")
    /\ UNCHANGED <<config, overflow_checks, evaluated, clusters, call, pt, tcall>>

\* Runner::run: self.builder().run(); the run itself is the started builder
\* stepped to completion (EvalSame .. Finish below).
RunnerRun ==
    /\ pc = "new"
    /\ entry' = "run"
    /\ BuilderBody("started")
    /\ UNCHANGED <<config, overflow_checks, evaluated, clusters, call, pt, tcall>>

\* Builder::start / Builder::run on a Builder obtained from Runner::builder.
BuilderStart ==
    /\ pc = "built"
    /\ pc' = "started"
    /\ UNCHANGED <<config, overflow_checks, entry, builder_created, evaluated, clusters,
                   call, pt, tcall>>

\* The bound same closure: color_same(a, b, is_same_color_a, is_same_color_b).
EvalSame ==
    /\ pc = "started"
    /\ \E a \in PaletteColors, b \in PaletteColors :
          LET shift == config.is_same_color_a
              thres == config.is_same_color_b
              panics == color_same_panics(shift, overflow_checks)
          IN  /\ call' = [NoCall EXCEPT !.op = "same", !.a = a, !.b = b,
                             !.shift = shift, !.thres = thres,
                             !.panicked = panics,
                             !.bval = IF panics THEN FALSE
                                      ELSE color_same(a, b, shift, thres)]
              /\ pc' = IF panics THEN "panicked" ELSE "returned"
    /\ evaluated' = TRUE
    /\ UNCHANGED <<config, overflow_checks, entry, builder_created, clusters, pt, tcall>>

\* The bound diff function: color_diff or oklab_color_diff by color_space.
EvalDiff ==
    /\ pc = "started"
    /\ \E a \in PaletteColors, b \in PaletteColors :
          \E d \in (IF config.color_space = "RGB" THEN {color_diff(a, b)}
                    ELSE oklab_color_diff(a, b)) :
              call' = [NoCall EXCEPT !.op = "diff", !.a = a, !.b = b, !.ival = d]
    /\ pc' = "returned"
    /\ evaluated' = TRUE
    /\ UNCHANGED <<config, overflow_checks, entry, builder_created, clusters, pt, tcall>>

\* The bound deepen closure.
EvalDeepen ==
    /\ pc = "started"
    /\ \E pn \in PatchInputs(config) :
          LET panics == deepen_panics(config, pn.patch, pn.neighbours)
          IN  /\ call' = [NoCall EXCEPT !.op = "deepen", !.patch = pn.patch,
                             !.neighbours = pn.neighbours,
                             !.panicked = panics,
                             !.bval = IF panics THEN FALSE
                                      ELSE deepen(config, pn.patch, pn.neighbours)]
              /\ pc' = IF panics THEN "panicked" ELSE "returned"
    /\ evaluated' = TRUE
    /\ UNCHANGED <<config, overflow_checks, entry, builder_created, clusters, pt, tcall>>

\* The bound hollow closure.
EvalHollow ==
    /\ pc = "started"
    /\ \E pn \in PatchInputs(config) :
          call' = [NoCall EXCEPT !.op = "hollow", !.patch = pn.patch,
                     !.neighbours = pn.neighbours,
                     !.bval = hollow(config, pn.patch, pn.neighbours)]
    /\ pc' = "returned"
    /\ evaluated' = TRUE
    /\ UNCHANGED <<config, overflow_checks, entry, builder_created, clusters, pt, tcall>>

\* The builder takes the predicate's result and goes on with its work.
Resume ==
    /\ pc = "returned"
    /\ pc' = "started"
    /\ call' = NoCall
    /\ UNCHANGED <<config, overflow_checks, entry, builder_created, evaluated, clusters,
                   pt, tcall>>

\* The builder has no work left: the Clusters result is produced.
Finish ==
    /\ pc = "started"
    /\ pc' = "finished"
    /\ clusters' = TRUE
    /\ UNCHANGED <<config, overflow_checks, entry, builder_created, evaluated, call, pt, tcall>>

Next ==
    \/ RunnerBuilder
    \/ RunnerStart
    \/ RunnerRun
    \/ BuilderStart
    \/ EvalSame
    \/ EvalDiff
    \/ EvalDeepen
    \/ EvalHollow
    \/ Resume
    \/ Finish

Spec == Init /\ [][Next]_vars

(***************************************************************************)
(* Properties of the Runner (specification Spec).                          *)
(***************************************************************************)
InAreaGate(cfg, patch) ==
    cfg.good_min_area < patch.area /\ patch.area < cfg.good_max_area

\* C2: a quantization shift >= 8 is rejected by Runner::builder (and so by
\* Runner::start and Runner::run): the Runner is either still unused or has
\* panicked, no Builder was created, no predicate was evaluated and no
\* Clusters result exists.
C2_ShiftRejected ==
    config.is_same_color_a >= 8 =>
        /\ pc \in {"new", "panicked"}
        /\ ~builder_created
        /\ ~evaluated
        /\ ~clusters
        /\ call = NoCall

C2_Witness ==
    /\ config.is_same_color_a = 8
    /\ entry = "run"
    /\ pc = "panicked"

\* C3: the deepen predicate returns false (and does not fault) for every
\* cluster whose area is <= good_min_area or >= good_max_area, whatever the
\* internal perimeter and the neighbours' color differences.
C3_AreaGate ==
    (call.op = "deepen" /\ ~InAreaGate(config, call.patch)) =>
        (~call.panicked /\ call.bval = FALSE)

C3_Witness ==
    /\ call.op = "deepen"
    /\ config.good_min_area = 16
    /\ call.patch.area = 16
    /\ call.patch.perimeter_internal = 0
    /\ Len(call.neighbours) > 0
    /\ call.neighbours[1].diff > config.deepen_diff
    /\ call.bval = FALSE

\* C4: the hollow predicate returns true exactly when the neighbour list has
\* at most hollow_neighbours entries, independent of area, perimeter and
\* color differences.
C4_HollowFlag ==
    call.op = "hollow" =>
        /\ ~call.panicked
        /\ call.bval = (Len(call.neighbours) <= config.hollow_neighbours)

C4_Witness ==
    /\ call.op = "hollow"
    /\ Len(call.neighbours) = config.hollow_neighbours + 1
    /\ call.bval = FALSE

\* The single cluster of a uniform 4x4 image under the default configuration:
\* area 16, no boundary against other clusters, no neighbours.
ScenarioA ==
    /\ config = DefaultConfig
    /\ call.op = "hollow"
    /\ call.patch = [area |-> 16, perimeter_internal |-> 0]
    /\ call.neighbours = <<>>

\* C5 as stated: in scenario A the cluster's hollow flag is false.
C5_Original == ScenarioA => call.bval = FALSE

\* C5 as amended: in scenario A the cluster has no neighbours and the hollow
\* predicate returns true for it (0 <= hollow_neighbours = 1).
C5_ScenarioA_Hollow == ScenarioA => (~call.panicked /\ call.bval = TRUE)

C5_Witness == ScenarioA /\ pc = "returned"

\* C8: for a non-empty neighbour list the deepen predicate returns true iff
\* good_min_area < area < good_max_area, and good_min_area = 0 or the internal
\* perimeter < area, and the FIRST neighbour's difference is strictly greater
\* than deepen_diff; later neighbours never matter.
C8_BothGates ==
    (call.op = "deepen" /\ Len(call.neighbours) > 0) =>
        /\ ~call.panicked
        /\ call.bval =
              (/\ InAreaGate(config, call.patch)
               /\ (config.good_min_area = 0
                     \/ call.patch.perimeter_internal < call.patch.area)
               /\ Head(call.neighbours).diff > config.deepen_diff)

C8_Witness ==
    /\ call.op = "deepen"
    /\ Len(call.neighbours) = 2
    /\ call.neighbours[1].diff = config.deepen_diff + 1
    /\ call.neighbours[2].diff < config.deepen_diff
    /\ config.good_min_area > 0
    /\ call.patch.perimeter_internal = call.patch.area - 1
    /\ call.bval = TRUE

\* C9 as stated: evaluating the deepen predicate never faults, the empty
\* neighbour list of a cluster without neighbours included.
C9_DeepenNeverFaults == call.op = "deepen" => ~call.panicked

\* C10 as stated: for every shift Runner::builder accepts, the bound
\* same-color predicate is total, shifts by an amount inside 0..7 and equals
\* the reference test on the channels shifted by that amount.
C10_ValidationSufficient ==
    call.op = "same" =>
        /\ ~call.panicked
        /\ call.shift \in 0..7
        /\ call.bval =
              (\A ch \in {"r", "g", "b"} :
                  LET qa == call.a[ch] \div (2 ^ call.shift)
                      qb == call.b[ch] \div (2 ^ call.shift)
                  IN  qa - qb <= call.thres /\ qb - qa <= call.thres)

(***************************************************************************)
(* SpecColor: color_same and color_diff are public functions; here they    *)
(* are called directly.  Init draws the arguments, one action per function *)
(* applies it.                                                             *)
(***************************************************************************)
ShiftArgs == (0 - 1)..ChannelBits

ThresArgs == {-1, 0, 1, 15}

InitColor ==
    /\ config = DefaultConfig
    /\ overflow_checks \in BOOLEAN
    /\ pc = "args"
    /\ entry = "none"
    /\ builder_created = FALSE
    /\ evaluated = FALSE
    /\ clusters = FALSE
    /\ \E a \in Colors, b \in Colors, shift \in ShiftArgs, thres \in ThresArgs :
          call = [NoCall EXCEPT !.a = a, !.b = b, !.shift = shift, !.thres = thres]
    /\ pt = NoTransform
    /\ tcall = NoTCall

CallColorSame ==
    /\ pc = "args"
    /\ LET panics == color_same_panics(call.shift, overflow_checks)
       IN  /\ call' = [call EXCEPT !.op = "same", !.panicked = panics,
                          !.bval = IF panics THEN FALSE
                                   ELSE color_same(call.a, call.b, call.shift, call.thres)]
           /\ pc' = IF panics THEN "panicked" ELSE "returned"
    /\ UNCHANGED <<config, overflow_checks, entry, builder_created, evaluated,
                   clusters, pt, tcall>>

CallColorDiff ==
    /\ pc = "args"
    /\ call' = [call EXCEPT !.op = "diff", !.ival = color_diff(call.a, call.b)]
    /\ pc' = "returned"
    /\ UNCHANGED <<config, overflow_checks, entry, builder_created, evaluated,
                   clusters, pt, tcall>>

NextColor ==
    \/ CallColorSame
    \/ CallColorDiff

SpecColor == InitColor /\ [][NextColor]_vars

Max2(x, y) == IF x >= y THEN x ELSE y

Min2(x, y) == IF x <= y THEN x ELSE y

L1Distance(a, b) ==
    (Max2(a.r, b.r) - Min2(a.r, b.r)) + (Max2(a.g, b.g) - Min2(a.g, b.g))
        + (Max2(a.b, b.b) - Min2(a.b, b.b))

\* C1: color_same is symmetric: for every shift in 0..7 and every tolerance,
\* color_same(a, b, shift, tolerance) returns (without faulting) what
\* color_same(b, a, shift, tolerance) returns.
C1_SameSymmetric ==
    (call.op = "same" /\ call.shift \in 0..7) =>
        /\ ~call.panicked
        /\ call.bval = color_same(call.b, call.a, call.shift, call.thres)

C1_Witness ==
    /\ call.op = "same"
    /\ call.shift = 4
    /\ call.thres = 1
    /\ call.a = Color(15, 0, 255)
    /\ call.b = Color(16, 0, 255)
    /\ call.bval = TRUE

\* C6: color_diff(a, b) is |a.r-b.r| + |a.g-b.g| + |a.b-b.b| without
\* wrap-around, lies in 0..765, is 0 exactly when a = b and 765 for black
\* versus white.
C6_RawMetric ==
    call.op = "diff" =>
        /\ call.ival = L1Distance(call.a, call.b)
        /\ call.ival \in 0..765
        /\ (call.ival = 0) = (call.a = call.b)
        /\ ({call.a, call.b} = {Black, White} => call.ival = 765)

C6_Witness ==
    /\ call.op = "diff"
    /\ call.a = Black
    /\ call.b = White
    /\ call.ival = 765

(***************************************************************************)
(* SpecPersp: PerspectiveTransform.  f64 values are modelled by integers   *)
(* (finite values that the arithmetic below keeps exact); a quotient is    *)
(* kept as the pair <<numerator, denominator>>.  Rust's arrays are         *)
(* 0-based, the sequences here 1-based: src_pts[0] is src_pts[1].          *)
(***************************************************************************)
Idx8 == 1..8

Sum8(f) == f[1] + f[2] + f[3] + f[4] + f[5] + f[6] + f[7] + f[8]

\* Matrix (super::Matrix): an 8x8 array of rows.
MatrixTranspose(m) == [i \in Idx8 |-> [j \in Idx8 |-> m[j][i]]]

MatrixDotMM(m, n) ==
    [i \in Idx8 |-> [j \in Idx8 |-> Sum8([k \in Idx8 |-> m[i][k] * n[k][j]])]]

MatrixDotMV(m, v) == [i \in Idx8 |-> Sum8([k \in Idx8 |-> m[i][k] * v[k]])]

ScaledIdentity(c) == [i \in Idx8 |-> [j \in Idx8 |-> IF i = j THEN c ELSE 0]]

NoMatrix == [some |-> FALSE, mat |-> ScaledIdentity(0)]

\* Matrix::inv returns an Option.  Its code decides when the inverse exists
\* and what it is; the model lets it answer None or Some of a sampled matrix
\* for any argument.
MatrixInv(m) == {NoMatrix} \cup {[some |-> TRUE, mat |-> ScaledIdentity(c)] : c \in {1, -1}}

\* round(num) = (num * 1e10).round() / 1e10 leaves an integer-valued num as
\* it is.
Round10(num) == num

\* The rows r1..r8 of mat_a.
NormalizationRows(src_pts, dst_pts) ==
    LET rx(i) == <<src_pts[2*i - 1], src_pts[2*i], 1, 0, 0, 0,
                   (0 - 1) * dst_pts[2*i - 1] * src_pts[2*i - 1],
                   (0 - 1) * dst_pts[2*i - 1] * src_pts[2*i]>>
        ry(i) == <<0, 0, 0, src_pts[2*i - 1], src_pts[2*i], 1,
                   (0 - 1) * dst_pts[2*i] * src_pts[2*i - 1],
                   (0 - 1) * dst_pts[2*i] * src_pts[2*i]>>
    IN  <<rx(1), ry(1), rx(2), ry(2), rx(3), ry(3), rx(4), ry(4)>>

\* The argument of Matrix::inv: transpose(mat_a) * mat_a.
NormalEquations(src_pts_in, dst_pts_in, is_inverse) ==
    LET src_pts == IF is_inverse THEN dst_pts_in ELSE src_pts_in
        dst_pts == IF is_inverse THEN src_pts_in ELSE dst_pts_in
        mat_a == NormalizationRows(src_pts, dst_pts)
    IN  MatrixDotMM(MatrixTranspose(mat_a), mat_a)

\* Variant: the zeroed coefficients of PerspectiveTransform::default.
FallbackCoeffsDefault == <<0, 0, 0, 0, 0, 0, 0, 0>>

FallbackCoeffs == <<1, 0, 0, 0, 1, 0, 0, 0>>

\* get_normalization_coefficients; inv is what Matrix::inv returned.
get_normalization_coefficients(src_pts_in, dst_pts_in, is_inverse, inv) ==
    LET src_pts == IF is_inverse THEN dst_pts_in ELSE src_pts_in
        dst_pts == IF is_inverse THEN src_pts_in ELSE dst_pts_in
        mat_a == NormalizationRows(src_pts, dst_pts)
        mat_b == dst_pts
    IN  IF inv.some
        THEN LET mat_c == inv.mat
                 mat_d == MatrixDotMM(mat_c, MatrixTranspose(mat_a))
                 mat_x == MatrixDotMV(mat_d, mat_b)
             IN  [i \in Idx8 |-> Round10(mat_x[i])]
        ELSE FallbackCoeffs

\* The point mapping shared by transform and transform_inverse.
ApplyCoeffs(c, point) ==
    [x |-> <<c[1] * point.x + c[2] * point.y + c[3],
             c[7] * point.x + c[8] * point.y + 1>>,
     y |-> <<c[4] * point.x + c[5] * point.y + c[6],
             c[7] * point.x + c[8] * point.y + 1>>]

transform(t, point) == ApplyCoeffs(t.coeffs, point)

transform_inverse(t, point) == ApplyCoeffs(t.coeffs_inv, point)

\* Sampled quadrilaterals: the axis-aligned square of side k at the origin;
\* side 0 is the degenerate one (four equal corners).
SquareQuad(k) ==
    <<[x |-> 0, y |-> 0], [x |-> k, y |-> 0], [x |-> k, y |-> k], [x |-> 0, y |-> k]>>

Quads == {SquareQuad(k) : k \in 0..MaxScale}

Coords == (0 - MaxCoord)..MaxCoord

Points == [x : Coords, y : Coords]

\* from_point_f64: the corner points laid out as x0, y0, x1, y1, ...
FlattenPoints(pts) ==
    <<pts[1].x, pts[1].y, pts[2].x, pts[2].y, pts[3].x, pts[3].y, pts[4].x, pts[4].y>>

OptionTag(inv) == IF inv.some THEN "some" ELSE "none"

InitPersp ==
    /\ config = DefaultConfig
    /\ overflow_checks \in BOOLEAN
    /\ pc = "persp"
    /\ entry = "none"
    /\ builder_created = FALSE
    /\ evaluated = FALSE
    /\ clusters = FALSE
    /\ call = NoCall
    /\ pt = NoTransform
    /\ tcall = NoTCall

\* PerspectiveTransform::from_point_f64, which ends in PerspectiveTransform::new.
FromPointF64 ==
    /\ ~pt.built
    /\ \E src \in Quads, dst \in Quads :
          LET src_pts == FlattenPoints(src)
              dst_pts == FlattenPoints(dst)
          IN  \E invf \in MatrixInv(NormalEquations(src_pts, dst_pts, FALSE)),
                 invi \in MatrixInv(NormalEquations(src_pts, dst_pts, TRUE)) :
                    pt' = [built |-> TRUE,
                           coeffs |-> get_normalization_coefficients(
                                          src_pts, dst_pts, FALSE, invf),
                           coeffs_inv |-> get_normalization_coefficients(
                                          src_pts, dst_pts, TRUE, invi),
                           inv_fwd |-> OptionTag(invf),
                           inv_inv |-> OptionTag(invi)]
    /\ UNCHANGED <<config, overflow_checks, pc, entry, builder_created, evaluated,
                   clusters, call, tcall>>

\* PerspectiveTransform::default: both coefficient arrays zeroed.
PerspDefault ==
    /\ ~pt.built
    /\ pt' = [NoTransform EXCEPT !.built = TRUE]
    /\ UNCHANGED <<config, overflow_checks, pc, entry, builder_created, evaluated,
                   clusters, call, tcall>>

Transform ==
    /\ pt.built
    /\ \E point \in Points :
          LET q == transform(pt, point)
          IN  tcall' = [dir |-> "fwd", point |-> point, x |-> q.x, y |-> q.y]
    /\ UNCHANGED <<config, overflow_checks, pc, entry, builder_created, evaluated,
                   clusters, call, pt>>

TransformInverse ==
    /\ pt.built
    /\ \E point \in Points :
          LET q == transform_inverse(pt, point)
          IN  tcall' = [dir |-> "inv", point |-> point, x |-> q.x, y |-> q.y]
    /\ UNCHANGED <<config, overflow_checks, pc, entry, builder_created, evaluated,
                   clusters, call, pt>>

NextPersp ==
    \/ FromPointF64
    \/ PerspDefault
    \/ Transform
    \/ TransformInverse

SpecPersp == InitPersp /\ [][NextPersp]_vars

\* The quotient num / den is the finite value v.
QuotientIs(q, v) == q[2] # 0 /\ q[1] = v * q[2]

MapsToItself == QuotientIs(tcall.x, tcall.point.x) /\ QuotientIs(tcall.y, tcall.point.y)

\* C7: when Matrix::inv finds no inverse of the normal-equations matrix for a
\* direction, construction still succeeds, that direction's coefficients are
\* exactly [1,0,0,0,1,0,0,0], and transform (transform_inverse) maps every
\* point to itself.
C7_DegenerateFallback ==
    /\ (pt.inv_fwd = "none" =>
            /\ pt.built
            /\ pt.coeffs = <<1, 0, 0, 0, 1, 0, 0, 0>>
            /\ (tcall.dir = "fwd" => MapsToItself))
    /\ (pt.inv_inv = "none" =>
            /\ pt.built
            /\ pt.coeffs_inv = <<1, 0, 0, 0, 1, 0, 0, 0>>
            /\ (tcall.dir = "inv" => MapsToItself))

C7_Witness ==
    /\ pt.inv_fwd = "none"
    /\ pt.inv_inv = "some"
    /\ pt.coeffs_inv # pt.coeffs
    /\ tcall.dir = "fwd"
    /\ tcall.point = [x |-> 1, y |-> 0 - 2]
    /\ tcall.x = <<1, 1>>
    /\ tcall.y = <<0 - 2, 1>>

====
